---- MODULE Spec2Model ----
(***************************************************************************)
(* A model of sagacious-cpp: the HTTP wrapper (server.h / server.cpp), the *)
(* data-access template (model.h) and the programs of the tutorial text.   *)
(***************************************************************************)
EXTENDS Integers, Sequences, FiniteSets, Bags, TLC

VARIABLES
    resource,   \* _server.resource: pattern -> method key -> registered entry
    onCount,    \* number of server::on calls made so far
    conns,      \* one record per call of a registered entry: what the handler got
    writes,     \* the calls of write() made on the underlying response objects
    aborted,    \* the assertion of to_string has failed and ended the program
    port,       \* _server.config.port
    asked,      \* the port value the last set_port or run(port) call was given
    starts,     \* the values of config.port at the calls of _server.start()
    store,      \* the documents of the database: (db, collection) -> set of _id
    instances,  \* the model<T> objects constructed so far
    clientLog,  \* the calls made on the thread_local database clients
    clientUsers,\* for each client object, the threads that have made a call on it
    out,        \* the lines written to std::cout by model<T>::get
    ret,        \* what the last call on a model returned (or that it threw)
    lastCall,   \* the last call made on a model, and how many were made
    prog,       \* the tutorial program that runs
    tight,      \* what are_too_tight() answers in this run
    frames,     \* the call stack: function, position, automatic objects, raw pointers
    heap,       \* the pants objects allocated with new; for each, the deletes made by
                \* managed_ptr destructors, those made directly, and the number of
                \* managed_ptr constructors it was given to
    tout,       \* the lines the tutorial program has written to cout
    exc,        \* the exception in flight, or "none"
    status,     \* "running", "done" or "aborted"
    mxs,        \* map: the input vector xs
    mop,        \* map: the function op
    mys,        \* map: the local vector ys
    mi,         \* map: the position std::transform has reached
    mpc,        \* map: "idle", "resize", "transform", "return" or "done"
    mret,       \* map: the vector returned to the caller
    objects,    \* the classic / modern objects constructed: _data and whether alive
    arrays,     \* the int[1024] arrays allocated with new and not yet released
    news,       \* the number of new int[1024] expressions evaluated so far
    rout,       \* the lines the constructors and destructors have written to cout
    rstatus     \* "running", or "crashed" after a delete that broke the heap

portVars == <<port, asked, starts>>
httpVars == <<resource, onCount, conns, writes, aborted, portVars>>
modelVars == <<store, instances, clientLog, clientUsers, out, ret, lastCall>>

mapVars == <<mxs, mop, mys, mi, mpc, mret>>
resVars == <<objects, arrays, news, rout, rstatus>>
tutVars == <<prog, tight, frames, heap, tout, exc, status, mapVars, resVars>>

vars == <<resource, onCount, conns, writes, aborted, port, asked, starts,
          store, instances, clientLog, clientUsers, out, ret, lastCall,
          prog, tight, frames, heap, tout, exc, status,
          mxs, mop, mys, mi, mpc, mret,
          objects, arrays, news, rout, rstatus>>

(***************************************************************************)
(* Bounds of the model.                                                    *)
(***************************************************************************)
MaxOn == 2          \* server::on calls in a run of the routing specification
MaxConn == 2        \* dispatches made by the underlying server
MaxWrites == 2      \* send / send_json calls made by the handlers of a run
MaxBodyLen == 12    \* length of the longest response body
MaxCalls == 3       \* calls made on model<T> and its instances
MaxObjs == 2        \* pants objects a client of managed_ptr allocates
MaxPtrs == 2        \* managed_ptr objects a client of managed_ptr constructs
MaxLen == 3         \* length of the longest vector given to map
MaxRuns == 2        \* calls of run() and run(port) in a run of the port specification
MaxModern == 3      \* modern objects constructed in a run of the resource specification
MaxLines == 6       \* lines of output after which no further object operation starts

(***************************************************************************)
(* enum method { GET = 0, POST, PUT, PATCH, DELETE }                       *)
(***************************************************************************)
GET == 0
POST == 1
PUT == 2
PATCH == 3
DELETE == 4

Methods == {GET, POST, PUT, PATCH, DELETE}

\* The values an object of type method can hold: the enumeration has no fixed
\* underlying type, so they are those of the smallest bit-field that holds its
\* enumerators 0..4, and static_cast<method>(n) yields each of them.
EnumBits == 3
EnumValues == 0..(2^EnumBits - 1)

\* The switch of to_string with the PATCH case missing.
ReachesDefault_no_patch(method) == method \notin {POST, PUT, DELETE}

\* The switch of to_string takes its default branch.
ReachesDefault(method) == method \notin {POST, PUT, PATCH, DELETE}

\* assert(method::GET == method)
AssertHolds(method) == GET = method

\* to_string with the PATCH case missing: PATCH falls to the default.
to_string_no_patch(method) ==
    CASE method = POST -> "POST"
      [] method = PUT -> "PUT"
      [] method = DELETE -> "DELETE"
      [] OTHER -> "GET"

\* http::to_string: a switch with four cases and a default.
to_string(method) ==
    CASE method = POST -> "POST"
      [] method = PUT -> "PUT"
      [] method = PATCH -> "PATCH"
      [] method = DELETE -> "DELETE"
      [] OTHER -> "GET"

\* The strings to_string can return: the keys of the inner routing map.
MethodKeys == {"GET", "POST", "PUT", "PATCH", "DELETE"}

Patterns == {"/a", "/b"}
Handlers == {"h1", "h2"}
Codes == {200, 404}

NoEntry == [handler |-> "none"]

\* std::to_string(size_t): the decimal digits, most significant first.
Digit(d) == <<"0", "1", "2", "3", "4", "5", "6", "7", "8", "9">>[d + 1]

RECURSIVE std_to_string(_)
std_to_string(n) ==
    IF n < 10 THEN <<Digit(n)>>
    ELSE std_to_string(n \div 10) \o <<Digit(n % 10)>>

\* A string body of n characters.
Body(n) == [i \in 1..n |-> "a"]

StringBodies == {Body(0), <<"b">>, Body(MaxBodyLen)}
\* A std::istream body, by the characters it yields; no string body of the
\* sample holds them.
StreamBodies == {<<"s">>}

\* CaseInsensitiveMultimap::emplace: a multimap keeps every entry it is given.
emplace(headers, name, value) == headers (+) SetToBag({<<name, value>>})

\* The number of entries of a header collection under one name.
HeaderCount(headers, name) ==
    LET es == {e \in BagToSet(headers) : e[1] = name}
        RECURSIVE Sum(_)
        Sum(S) == IF S = {} THEN 0
                  ELSE LET e == CHOOSE x \in S : TRUE
                       IN CopiesIn(e, headers) + Sum(S \ {e})
    IN Sum(es)

\* request::request and response::response: the wrappers built around the
\* underlying objects.
request_ctor(request) == [_r |-> request]
response_ctor(response) == [_r |-> response, _headers |-> EmptyBag]

\* The objects the underlying server hands to an entry for its n-th dispatch.
Request(n) == <<"Request", n>>
Response(n) == <<"Response", n>>

\* _r->write(code, body, _headers)
Write(res, code, body) ==
    [r |-> res._r, code |-> code, body |-> body, headers |-> res._headers]

\* send with the Content-Length counting a terminator after the body.
send_string_plus_one(res, code, body) ==
    LET res1 == [res EXCEPT !._headers =
                    emplace(@, "Content-Length", std_to_string(Len(body) + 1))]
    IN [res |-> res1, write |-> Write(res1, code, body)]

\* response::send(StatusCode, std::string)
send_string(res, code, body) ==
    LET res1 == [res EXCEPT !._headers =
                    emplace(@, "Content-Length", std_to_string(Len(body)))]
    IN [res |-> res1, write |-> Write(res1, code, body)]

\* send with the header collection emptied before the write.
send_stream_clearing(res, code, body) ==
    LET res1 == [res EXCEPT !._headers = EmptyBag]
    IN [res |-> res1, write |-> Write(res1, code, body)]

\* response::send(StatusCode, std::istream&)
send_stream(res, code, body) ==
    [res |-> res, write |-> Write(res, code, body)]

\* send_json with no Content-Type entry added.
send_json_string_plain(res, code, body) == send_string(res, code, body)

\* response::send_json(StatusCode, std::string)
send_json_string(res, code, body) ==
    send_string([res EXCEPT !._headers =
                    emplace(@, "Content-Type", <<"application/json">>)], code, body)

\* response::send_json(StatusCode, std::istream&)
send_json_stream(res, code, body) ==
    send_stream([res EXCEPT !._headers =
                    emplace(@, "Content-Type", <<"application/json">>)], code, body)

\* The lambda server::on stores: it captures the handler by value.
Lambda(handler) == [handler |-> handler]

\* The lambda handing the handler a response wrapper not built from its argument.
Invoke_detached(entry, response, request) ==
    [h |-> entry.handler,
     req |-> request_ctor(request),
     res |-> response_ctor(Response(0))]

\* The lambda handing the handler a response wrapper that starts with the
\* headers of the wrapper built for the dispatch before.
Invoke_shared_headers(entry, response, request) ==
    [h |-> entry.handler,
     req |-> request_ctor(request),
     res |-> [response_ctor(response) EXCEPT !._headers =
                 IF conns = <<>> THEN EmptyBag
                 ELSE conns[Len(conns)].res._headers]]

\* The body of the lambda: handler(http::request{request}, http::response{response}).
Invoke(entry, response, request) ==
    [h |-> entry.handler,
     req |-> request_ctor(request),
     res |-> response_ctor(response)]

(***************************************************************************)
(* The data-access template model<T> (model.h).                            *)
(***************************************************************************)
DbNames == {"", "app"}
CollNames == {"", "users"}
Colls == DbNames \X CollNames
Threads == {1, 2}

\* The strings bsoncxx::oid accepts, and one it rejects.
ValidIds == {"5f0000000000000000000001", "5f0000000000000000000002"}
Ids == ValidIds \cup {"bad"}

\* Two classes derived from model<T>: the default constructor of "plain" uses
\* model(), that of "named" uses model("app", "users").
Types == {"plain", "named"}

\* model<T>::model(): _db and _collection are default-initialised strings.
model_default(t) == [type |-> t, _db |-> "", _collection |-> "", data |-> ""]

\* model<T>::model(std::string db, std::string collection)
model_named(t, db, collection) ==
    [type |-> t, _db |-> db, _collection |-> collection, data |-> ""]

\* T obj{}
T_default(t) ==
    IF t = "plain" THEN model_default(t) ELSE model_named(t, "app", "users")

\* A client that is static but not thread_local: one object for each T.
Client_static(th, t) == <<0, t>>

\* The thread_local client of model<T> as seen by thread th.
Client(th, t) == <<th, t>>

\* The client objects of the program.
AllClients == {Client(th, t) : th \in Threads, t \in Types}

\* model<T>::get_collection with the two names exchanged.
get_collection_swapped(th, obj) ==
    [client |-> Client(th, obj.type), db |-> obj._collection, coll |-> obj._db]

\* model<T>::get_collection: model<T>::client[_db][_collection]
get_collection(th, obj) ==
    [client |-> Client(th, obj.type), db |-> obj._db, coll |-> obj._collection]

\* model<T>::collection
collection(th, obj) == get_collection(th, obj)

\* The call collection() makes on the client.
Lookup(c) == <<"[]", c.client, c.db, c.coll>>

\* The document stored under an _id.
Document(id) == [_id |-> id, data |-> "stored"]

\* find_one with the filter ignored: any document of the collection.
find_one_any(st, c, id) ==
    IF <<c.db, c.coll>> \in DOMAIN st /\ st[<<c.db, c.coll>>] # {}
    THEN [found |-> TRUE,
          doc |-> Document(CHOOSE x \in st[<<c.db, c.coll>>] : TRUE)]
    ELSE [found |-> FALSE]

\* mongocxx::collection::find_one with the filter {_id: oid}; a collection
\* that does not exist holds no document.
find_one(st, c, id) ==
    IF <<c.db, c.coll>> \in DOMAIN st /\ id \in st[<<c.db, c.coll>>]
    THEN [found |-> TRUE, doc |-> Document(id)]
    ELSE [found |-> FALSE]

\* bsoncxx::oid{id} throws unless id is an object-id string.
ValidOid(id) == id \in ValidIds

\* get with the found document parsed into the object it returns.
get_parsed(th, t, id, st) ==
    LET obj == T_default(t)
    IN IF ~ValidOid(id)
       THEN [ret |-> [kind |-> "throw"], out |-> <<>>, client |-> <<>>]
       ELSE LET c == collection(th, obj)
                result == find_one(st, c, id)
            IN [ret |-> [kind |-> "return",
                         value |-> IF result.found
                                   THEN [obj EXCEPT !.data = result.doc.data]
                                   ELSE obj],
                out |-> <<IF result.found THEN "ok" ELSE "nope">>,
                client |-> <<Lookup(c), <<"find_one", c.client, c.db, c.coll, id>>>>]

\* get with the collection resolved before the oid is built.
get_oid_late(th, t, id, st) ==
    LET obj == T_default(t)
        c == collection(th, obj)
    IN IF ~ValidOid(id)
       THEN [ret |-> [kind |-> "throw"], out |-> <<>>, client |-> <<Lookup(c)>>]
       ELSE LET result == find_one(st, c, id)
            IN [ret |-> [kind |-> "return", value |-> obj],
                out |-> <<IF result.found THEN "ok" ELSE "nope">>,
                client |-> <<Lookup(c), <<"find_one", c.client, c.db, c.coll, id>>>>]

\* get looking in the collection of the instance of T constructed last, when
\* there is one.
get_of_last_instance(th, t, id, st) ==
    LET is == {i \in 1..Len(instances) : instances[i].type = t}
        obj == T_default(t)
        src == IF is = {} THEN obj
               ELSE instances[CHOOSE i \in is : \A j \in is : j <= i]
    IN IF ~ValidOid(id)
       THEN [ret |-> [kind |-> "throw"], out |-> <<>>, client |-> <<>>]
       ELSE LET c == collection(th, src)
                result == find_one(st, c, id)
            IN [ret |-> [kind |-> "return", value |-> obj],
                out |-> <<IF result.found THEN "ok" ELSE "nope">>,
                client |-> <<Lookup(c), <<"find_one", c.client, c.db, c.coll, id>>>>]

\* model<T>::get(id): what it returns, prints and asks of the client.
get(th, t, id, st) ==
    LET obj == T_default(t)
    IN IF ~ValidOid(id)
       THEN [ret |-> [kind |-> "throw"], out |-> <<>>, client |-> <<>>]
       ELSE LET c == collection(th, obj)
                result == find_one(st, c, id)
            IN [ret |-> [kind |-> "return", value |-> obj],
                out |-> <<IF result.found THEN "ok" ELSE "nope">>,
                client |-> <<Lookup(c), <<"find_one", c.client, c.db, c.coll, id>>>>]

\* The width of short and of unsigned short.
ShortBits == 16

\* The conversion of an int argument to the parameter type short.
ToShort(n) == ((n + 2^(ShortBits - 1)) % 2^ShortBits) - 2^(ShortBits - 1)

\* The conversion of a short to unsigned short left out: the value as it is.
ToUShort_signed(s) == s

\* The conversion of a short to unsigned short, the type of Config::port.
ToUShort(s) == s % 2^ShortBits

\* server::set_port(short port): the value _server.config.port takes when the
\* caller passes n.
set_port(n) == ToUShort(ToShort(n))

DefaultPort == 9080

\* The ports a caller asks for.
Ports == {0, 80, DefaultPort, 2^(ShortBits - 1) - 1, 2^(ShortBits - 1),
          2^ShortBits - 1}
AllPorts == 0..(2^ShortBits - 1)

\* server::server(): _server{} and set_port(9080).
HttpInit ==
    /\ resource = [p \in Patterns |-> [k \in MethodKeys |-> NoEntry]]
    /\ onCount = 0
    /\ conns = <<>>
    /\ writes = <<>>
    /\ aborted = FALSE
    /\ port = set_port(DefaultPort)
    /\ asked = DefaultPort
    /\ starts = <<>>

\* server::set_port(port)
SetPort(n) ==
    /\ ~aborted
    /\ port' = set_port(n)
    /\ asked' = n
    /\ UNCHANGED <<resource, onCount, conns, writes, aborted, starts,
                   modelVars, tutVars>>

\* server::run(): _server.start() with the configuration as it is.
Run ==
    /\ ~aborted
    /\ starts' = Append(starts, port)
    /\ UNCHANGED <<resource, onCount, conns, writes, aborted, port, asked,
                   modelVars, tutVars>>

\* run(port) starting the server before it assigns the port.
RunPort_start_first(n) ==
    /\ ~aborted
    /\ starts' = Append(starts, port)
    /\ port' = set_port(n)
    /\ asked' = n
    /\ UNCHANGED <<resource, onCount, conns, writes, aborted, modelVars, tutVars>>

\* server::run(port): set_port(port); run();
RunPort(n) ==
    /\ ~aborted
    /\ port' = set_port(n)
    /\ asked' = n
    /\ starts' = Append(starts, port')
    /\ UNCHANGED <<resource, onCount, conns, writes, aborted, modelVars, tutVars>>

\* server::on(method, pattern, handler)
\* on that keeps an entry already registered under the pattern and method.
On_keep_first(method, pattern, handler) ==
    /\ ~aborted
    /\ resource' = IF resource[pattern][to_string(method)] = NoEntry
                   THEN [resource EXCEPT
                            ![pattern][to_string(method)] = Lambda(handler)]
                   ELSE resource
    /\ onCount' = onCount + 1
    /\ UNCHANGED <<conns, writes, aborted, portVars, modelVars, tutVars>>

\* server::on(method, pattern, handler). When to_string reaches its default
\* branch with a value that fails the assertion, a build without NDEBUG ends the
\* program there; a build with NDEBUG goes on and returns "GET".
On(method, pattern, handler) ==
    /\ ~aborted
    /\ onCount' = onCount + 1
    /\ \/ /\ ReachesDefault(method) /\ ~AssertHolds(method)
          /\ aborted' = TRUE
          /\ UNCHANGED resource
       \/ /\ resource' = [resource EXCEPT
                             ![pattern][to_string(method)] = Lambda(handler)]
          /\ UNCHANGED aborted
    /\ UNCHANGED <<conns, writes, portVars, modelVars, tutVars>>

\* The underlying server calls the entry registered under (pattern, key) with
\* the response and request objects of a new connection.
Dispatch(pattern, key) ==
    /\ ~aborted
    /\ resource[pattern][key] # NoEntry
    /\ conns' = Append(conns, Invoke(resource[pattern][key],
                                     Response(Len(conns) + 1),
                                     Request(Len(conns) + 1)))
    /\ UNCHANGED <<resource, onCount, writes, aborted, portVars, modelVars, tutVars>>

\* One call the handler of connection c makes on the response it was given.
SendOp(op, res, code, body) ==
    CASE op = "send_string" -> send_string(res, code, body)
      [] op = "send_stream" -> send_stream(res, code, body)
      [] op = "send_json_string" -> send_json_string(res, code, body)
      [] op = "send_json_stream" -> send_json_stream(res, code, body)

Send(c, op, code, body) ==
    /\ ~aborted
    /\ c \in 1..Len(conns)
    /\ LET r == SendOp(op, conns[c].res, code, body)
       IN /\ conns' = [conns EXCEPT ![c].res = r.res]
          /\ writes' = Append(writes, r.write)
    /\ UNCHANGED <<resource, onCount, aborted, portVars, modelVars, tutVars>>

StringOps == {"send_string", "send_json_string"}
StreamOps == {"send_stream", "send_json_stream"}

SendAny(c) ==
    \/ \E op \in StringOps, code \in Codes, body \in StringBodies :
          Send(c, op, code, body)
    \/ \E op \in StreamOps, code \in Codes, body \in StreamBodies :
          Send(c, op, code, body)

NoCall == [op |-> "none", n |-> 0]
Called(op) == [op |-> op, n |-> lastCall.n + 1]

\* No model has been used; the database holds no document.
ModelIdle ==
    /\ store = [c \in Colls |-> {}]
    /\ instances = <<>>
    /\ clientLog = <<>>
    /\ clientUsers = [c \in AllClients |-> {}]
    /\ out = <<>>
    /\ ret = [kind |-> "none"]
    /\ lastCall = NoCall

\* The collections that exist when the program starts: those the default
\* constructors of the two classes name.
ExistingColls == {<<T_default(t)._db, T_default(t)._collection>> : t \in Types}

\* No model has been used; the database holds any documents.
ModelInit ==
    /\ store \in [ExistingColls -> SUBSET ValidIds]
    /\ instances = <<>>
    /\ clientLog = <<>>
    /\ clientUsers = [c \in AllClients |-> {}]
    /\ out = <<>>
    /\ ret = [kind |-> "none"]
    /\ lastCall = NoCall

\* T obj{}: an instance built by the default constructor of T.
Construct(t) ==
    /\ instances' = Append(instances, T_default(t))
    /\ lastCall' = Called("construct")
    /\ ret' = [kind |-> "none"]
    /\ UNCHANGED <<store, clientLog, clientUsers, out, httpVars, tutVars>>

\* An instance built through model(db, collection).
ConstructNamed(t, db, coll) ==
    /\ instances' = Append(instances, model_named(t, db, coll))
    /\ lastCall' = Called("construct")
    /\ ret' = [kind |-> "none"]
    /\ UNCHANGED <<store, clientLog, clientUsers, out, httpVars, tutVars>>

\* save with an insert of the instance into its collection.
Save_inserting(i) ==
    /\ i \in 1..Len(instances)
    /\ lastCall' = Called("save")
    /\ ret' = [kind |-> "void"]
    /\ LET c == get_collection(1, instances[i])
       IN /\ store' = [store EXCEPT ![<<c.db, c.coll>>] = @ \cup ValidIds]
          /\ clientLog' = Append(clientLog, Lookup(c))
    /\ UNCHANGED <<instances, clientUsers, out, httpVars, tutVars>>

\* model<T>::save(): an empty body.
Save(i) ==
    /\ i \in 1..Len(instances)
    /\ lastCall' = Called("save")
    /\ ret' = [kind |-> "void"]
    /\ UNCHANGED <<store, instances, clientLog, clientUsers, out, httpVars, tutVars>>

\* model<T>::remove(): an empty body.
Remove(i) ==
    /\ i \in 1..Len(instances)
    /\ lastCall' = Called("remove")
    /\ ret' = [kind |-> "void"]
    /\ UNCHANGED <<store, instances, clientLog, clientUsers, out, httpVars, tutVars>>

\* collection() called on instance i by thread th.
Collection(th, i) ==
    /\ i \in 1..Len(instances)
    /\ lastCall' = Called("collection")
    /\ LET c == collection(th, instances[i])
       IN /\ ret' = [kind |-> "return", value |-> c]
          /\ clientLog' = Append(clientLog, Lookup(c))
          /\ clientUsers' = [clientUsers EXCEPT ![c.client] = @ \cup {th}]
    /\ UNCHANGED <<store, instances, out, httpVars, tutVars>>

\* model<T>::get(id) called by thread th.
Get(th, t, id) ==
    /\ lastCall' = Called("get")
    /\ LET r == get(th, t, id, store)
       IN /\ ret' = r.ret
          /\ out' = out \o r.out
          /\ clientLog' = clientLog \o r.client
          /\ clientUsers' = [c \in AllClients |->
                IF \E k \in 1..Len(r.client) : r.client[k][2] = c
                THEN clientUsers[c] \cup {th}
                ELSE clientUsers[c]]
    /\ UNCHANGED <<store, instances, httpVars, tutVars>>

\* A further call may be made on a model.
MoreCalls == lastCall.n < MaxCalls

ModelNext ==
    \/ \E t \in Types : MoreCalls /\ Construct(t)
    \/ \E t \in Types, db \in DbNames, coll \in CollNames :
          MoreCalls /\ ConstructNamed(t, db, coll)
    \/ \E i \in 1..MaxCalls : MoreCalls /\ Save(i)
    \/ \E i \in 1..MaxCalls : MoreCalls /\ Remove(i)
    \/ \E th \in Threads, i \in 1..MaxCalls : MoreCalls /\ Collection(th, i)
    \/ \E th \in Threads, t \in Types, id \in Ids : MoreCalls /\ Get(th, t, id)

(***************************************************************************)
(* The programs of the tutorial: managed_ptr, pants, wear_pants and the    *)
(* versions of casually_wear_pants.                                        *)
(***************************************************************************)
Programs == {"wear_pants", "raw_return", "raw_throw", "managed_throw", "client"}

\* The function main calls first in each program; "client" stands for any
\* code that uses the public interface of managed_ptr.
Main(p) == IF p = "client" THEN "client" ELSE "main"

\* The bodies of the functions, statement by statement.
Code(p, fn) ==
    CASE fn = "client" -> <<>>
      [] fn = "main" /\ p = "wear_pants" ->
            <<[op |-> "call", fn |-> "wear_pants"]>>
      [] fn = "main" /\ p = "raw_return" ->
            <<[op |-> "call", fn |-> "casually_wear_pants"]>>
      [] fn = "main" ->
            <<[op |-> "try_call", fn |-> "casually_wear_pants"]>>
      [] fn = "wear_pants" ->
            <<[op |-> "managed"], [op |-> "wear"]>>
      [] fn = "casually_wear_pants" /\ p = "raw_return" ->
            <<[op |-> "new_raw"], [op |-> "if_tight_return"], [op |-> "wear"],
              [op |-> "delete"]>>
      [] fn = "casually_wear_pants" /\ p = "raw_throw" ->
            <<[op |-> "new_raw"], [op |-> "wear"], [op |-> "delete"]>>
      [] fn = "casually_wear_pants" /\ p = "managed_throw" ->
            <<[op |-> "managed"], [op |-> "wear"]>>

\* pants::too_tight() of the throwing pants class, answering false.
too_tight_false == FALSE

\* pants::too_tight() const { return true; }
too_tight == TRUE

\* Whether pants::wear() of program p throws: the pants of the two exception
\* programs throw when too_tight(), the others only print.
WearThrows(p) == p \in {"raw_throw", "managed_throw"} /\ too_tight

\* tight_pants_exception::what()
what == "too tight"

Null == 0

\* new pants
NewObject == [state |-> "live", deletes |-> 0, rawDeletes |-> 0, owners |-> 0]

\* Copy construction and copy assignment of managed_ptr, were they allowed.
Copyable_allowed == TRUE

\* managed_ptr(const managed_ptr&) = delete; operator=(const managed_ptr&) = delete
Copyable == FALSE

\* managed_ptr::~managed_ptr with an empty body.
managed_ptr_dtor_empty(m) == Null

\* managed_ptr::~managed_ptr: the pointer given to delete.
managed_ptr_dtor(m) == m._ptr

\* managed_ptr::operator->
arrow(m) == m._ptr

\* A frame may be popped without its automatic objects having been destroyed.
CanPop_any(f) == TRUE

\* A frame is left once its automatic objects have been destroyed.
CanPop(f) == f.autos = <<>>

Top == frames[Len(frames)]
Running == status = "running" /\ frames # <<>>

\* The statement the top frame is at, if it is inside its body.
AtEnd(f) == f.pc > Len(Code(prog, f.fn))
Instr(f) == Code(prog, f.fn)[f.pc]
At(op) == Running /\ exc = "none" /\ ~AtEnd(Top) /\ Instr(Top).op = op
InClient == Running /\ exc = "none" /\ Top.fn = "client"

\* The top frame is inside a try block whose callee has thrown.
Catching(f) == ~AtEnd(f) /\ Instr(f).op = "try_call"

\* Control leaves the top frame: its end is reached, or an exception it does
\* not catch passes through it.
Leaving(f) == IF exc = "none" THEN AtEnd(f) ELSE ~Catching(f)

SetTop(f) == [frames EXCEPT ![Len(frames)] = f]
Advance(f) == IF f.fn = "client" THEN f ELSE [f EXCEPT !.pc = @ + 1]

\* The number of managed_ptr objects built so far by a constructor over a
\* pointee, and the pointers a client can name.
RECURSIVE SumOwners(_)
SumOwners(h) ==
    IF h = <<>> THEN 0 ELSE h[Len(h)].owners + SumOwners(SubSeq(h, 1, Len(h) - 1))

Pointers(f) == f.raws \cup {arrow(f.autos[i]) : i \in 1..Len(f.autos)} \cup {Null}

\* What a managed_ptr can be initialised from: nothing, a pointer, or (if
\* copying were allowed) another managed_ptr.
Initializers(f) ==
    {[kind |-> "default"]}
      \cup {[kind |-> "pointer", p |-> p] : p \in Pointers(f)}
      \cup (IF Copyable THEN {[kind |-> "copy", i |-> i] : i \in 1..Len(f.autos)}
            ELSE {})

TutFresh ==
    /\ frames = <<[fn |-> Main(prog), pc |-> 1, autos |-> <<>>, raws |-> {}]>>
    /\ heap = <<>>
    /\ tout = <<>>
    /\ exc = "none"
    /\ status = "running"

\* A tutorial program is about to start.
TutInit ==
    /\ prog \in Programs
    /\ tight \in (IF prog = "raw_return" THEN BOOLEAN ELSE {FALSE})
    /\ TutFresh

\* No tutorial program runs.
TutIdle ==
    /\ prog = "none"
    /\ tight = FALSE
    /\ frames = <<>>
    /\ heap = <<>>
    /\ tout = <<>>
    /\ exc = "none"
    /\ status = "done"

\* managed_ptr<pants> m;  managed_ptr<pants> m{p};
Construct_mp(init) ==
    /\ \/ At("managed") /\ init = [kind |-> "default"]
       \/ /\ InClient
          /\ init \in Initializers(Top)
          /\ Len(Top.autos) < MaxPtrs
          /\ SumOwners(heap) < MaxPtrs
          /\ init.kind = "default" => Len(heap) < MaxObjs
    /\ LET p == CASE init.kind = "default" -> Len(heap) + 1
                  [] init.kind = "pointer" -> init.p
                  [] init.kind = "copy" -> Top.autos[init.i]._ptr
           h1 == IF init.kind = "default" THEN Append(heap, NewObject) ELSE heap
       IN /\ heap' = IF p # Null /\ init.kind # "copy"
                     THEN [h1 EXCEPT ![p].owners = @ + 1] ELSE h1
          /\ tout' = IF init.kind = "default"
                     THEN Append(tout, "pants created") ELSE tout
          /\ frames' = SetTop([Advance(Top) EXCEPT !.autos = Append(@, [_ptr |-> p])])
    /\ UNCHANGED <<prog, tight, exc, status, httpVars, modelVars, mapVars, resVars>>

\* pants* the_pants = new pants;
NewRaw ==
    /\ \/ At("new_raw")
       \/ InClient /\ Len(heap) < MaxObjs
    /\ heap' = Append(heap, NewObject)
    /\ tout' = Append(tout, "pants created")
    /\ frames' = SetTop([Advance(Top) EXCEPT !.raws = @ \cup {Len(heap) + 1}])
    /\ UNCHANGED <<prog, tight, exc, status, httpVars, modelVars, mapVars, resVars>>

\* pants->wear();  the_pants->wear();
Wear ==
    /\ At("wear")
    /\ IF WearThrows(prog)
       THEN /\ exc' = "tight_pants_exception"
            /\ UNCHANGED <<tout, frames>>
       ELSE /\ tout' = Append(tout, "pants worn")
            /\ frames' = SetTop(Advance(Top))
            /\ exc' = exc
    /\ UNCHANGED <<prog, tight, heap, status, httpVars, modelVars, mapVars, resVars>>

\* if (the_pants->are_too_tight()) { return; }
IfTight ==
    /\ At("if_tight_return")
    /\ frames' = SetTop([Top EXCEPT !.pc =
                           IF tight THEN Len(Code(prog, Top.fn)) + 1 ELSE @ + 1])
    /\ UNCHANGED <<prog, tight, heap, tout, exc, status, httpVars, modelVars, mapVars, resVars>>

\* delete p: the destructor of a live object runs and prints; deleting the
\* null pointer does nothing; deleting an object a second time is undefined:
\* the destructor may or may not print again and the program may abort.
Delete(p, by, printsAgain, aborts) ==
    IF p = Null
    THEN /\ UNCHANGED <<heap, tout, status>>
         /\ ~printsAgain /\ ~aborts
    ELSE /\ heap' = IF by = "managed_ptr"
                     THEN [heap EXCEPT ![p].state = "freed", ![p].deletes = @ + 1]
                     ELSE [heap EXCEPT ![p].state = "freed", ![p].rawDeletes = @ + 1]
         /\ IF heap[p].state = "live"
            THEN /\ tout' = Append(tout, "pants destroyed")
                 /\ status' = status
                 /\ ~printsAgain /\ ~aborts
            ELSE /\ tout' = IF printsAgain THEN Append(tout, "pants destroyed")
                            ELSE tout
                 /\ status' = IF aborts THEN "aborted" ELSE status

\* delete the_pants;
DeleteRaw(p, printsAgain, aborts) ==
    /\ Running
    /\ p \in Top.raws
    /\ \/ At("delete")
       \/ InClient /\ heap[p].rawDeletes = 0
    /\ Delete(p, "statement", printsAgain, aborts)
    /\ frames' = SetTop(Advance(Top))
    /\ UNCHANGED <<prog, tight, exc, httpVars, modelVars, mapVars, resVars>>

\* A call of fn, inside a try block or not.
Call ==
    /\ At("call") \/ At("try_call")
    /\ frames' = Append(frames, [fn |-> Instr(Top).fn, pc |-> 1,
                                 autos |-> <<>>, raws |-> {}])
    /\ UNCHANGED <<prog, tight, heap, tout, exc, status, httpVars, modelVars, mapVars, resVars>>

\* The last constructed automatic managed_ptr of the top frame is destroyed:
\* at the end of its block, on return, or while an exception unwinds the frame.
DestroyTop(printsAgain, aborts) ==
    /\ Running
    /\ Top.autos # <<>>
    /\ Leaving(Top)
    /\ Delete(managed_ptr_dtor(Top.autos[Len(Top.autos)]), "managed_ptr",
              printsAgain, aborts)
    /\ frames' = SetTop([Top EXCEPT !.autos = SubSeq(@, 1, Len(@) - 1)])
    /\ UNCHANGED <<prog, tight, exc, httpVars, modelVars, mapVars, resVars>>

\* Control leaves the top frame: by return, to the statement after the call;
\* by an exception, to the caller's handler or through the caller.
PopFrame ==
    /\ Running
    /\ Leaving(Top)
    /\ CanPop(Top)
    /\ LET rest == SubSeq(frames, 1, Len(frames) - 1)
       IN /\ frames' = IF rest # <<>> /\ exc = "none"
                       THEN [rest EXCEPT ![Len(rest)] = Advance(@)]
                       ELSE rest
          /\ status' = IF rest = <<>> THEN "done" ELSE status
    /\ UNCHANGED <<prog, tight, heap, tout, exc, httpVars, modelVars, mapVars, resVars>>

\* catch (tight_pants_exception& e) { cout << e.what() << endl; }
Catch ==
    /\ Running
    /\ exc # "none"
    /\ Catching(Top)
    /\ tout' = Append(tout, what)
    /\ exc' = "none"
    /\ frames' = SetTop(Advance(Top))
    /\ UNCHANGED <<prog, tight, heap, status, httpVars, modelVars, mapVars, resVars>>

\* Every initializer a managed_ptr could be given within the bounds.
AllInitializers ==
    {[kind |-> "default"]}
      \cup {[kind |-> "pointer", p |-> p] : p \in 0..MaxObjs}
      \cup {[kind |-> "copy", i |-> i] : i \in 1..MaxPtrs}

TutorialNext ==
    \/ \E init \in AllInitializers : Construct_mp(init)
    \/ NewRaw
    \/ Wear
    \/ IfTight
    \/ \E p \in 1..Len(heap), a, b \in BOOLEAN : DeleteRaw(p, a, b)
    \/ Call
    \/ \E a, b \in BOOLEAN : DestroyTop(a, b)
    \/ PopFrame
    \/ Catch

(***************************************************************************)
(* The tutorial's map<Dom, Cod>.                                           *)
(***************************************************************************)
Dom == {0, 1, 2}
Ops == {"twice", "succ", "zero"}

\* op(x) for the functions given to map.
Apply(op, x) ==
    CASE op = "twice" -> 2 * x
      [] op = "succ" -> x + 1
      [] op = "zero" -> 0

\* The vectors of at most n elements of Dom.
Vectors(n) == UNION {[1..k -> Dom] : k \in 0..n}

\* Cod{}: the value resize gives a new element.
CodDefault == 0

\* ys.reserve(n) in place of ys.resize(n): the size of ys stays 0.
resize_reserving(ys, n) == ys

\* ys.resize(n) on the empty vector ys
resize(ys, n) == [i \in 1..n |-> IF i <= Len(ys) THEN ys[i] ELSE CodDefault]

\* No call of map is made.
MapIdle ==
    /\ mxs = <<>>
    /\ mop = "zero"
    /\ mys = <<>>
    /\ mi = 0
    /\ mpc = "idle"
    /\ mret = <<>>

\* map(xs, op) has been called: std::vector<Cod> ys;
MapInit ==
    /\ mxs \in Vectors(MaxLen)
    /\ mop \in Ops
    /\ mys = <<>>
    /\ mi = 0
    /\ mpc = "resize"
    /\ mret = <<>>

\* ys.resize(xs.size());
MapResize ==
    /\ mpc = "resize"
    /\ mys' = resize(mys, Len(mxs))
    /\ mi' = 1
    /\ mpc' = "transform"
    /\ UNCHANGED <<mxs, mop, mret, httpVars, modelVars,
                   prog, tight, frames, heap, tout, exc, status, resVars>>

\* One step of std::transform(xs.begin(), xs.end(), ys.begin(), op):
\* *d_first++ = op(*first++). A write past the end of ys stores nothing
\* that the vector returns.
MapTransform ==
    /\ mpc = "transform"
    /\ mi <= Len(mxs)
    /\ mys' = IF mi <= Len(mys) THEN [mys EXCEPT ![mi] = Apply(mop, mxs[mi])]
              ELSE mys
    /\ mi' = mi + 1
    /\ UNCHANGED <<mxs, mop, mpc, mret, httpVars, modelVars,
                   prog, tight, frames, heap, tout, exc, status, resVars>>

\* std::transform has reached xs.end().
MapTransformEnd ==
    /\ mpc = "transform"
    /\ mi > Len(mxs)
    /\ mpc' = "return"
    /\ UNCHANGED <<mxs, mop, mys, mi, mret, httpVars, modelVars,
                   prog, tight, frames, heap, tout, exc, status, resVars>>

\* return ys;
MapReturn ==
    /\ mpc = "return"
    /\ mret' = mys
    /\ mpc' = "done"
    /\ UNCHANGED <<mxs, mop, mys, mi, httpVars, modelVars,
                   prog, tight, frames, heap, tout, exc, status, resVars>>

MapNext ==
    \/ MapResize
    \/ MapTransform
    \/ MapTransformEnd
    \/ MapReturn

(***************************************************************************)
(* The resource classes of the tutorial: classic and modern.               *)
(***************************************************************************)
\* classic::classic(): _data{new int[1024]} and one line of output.
classic_ctor(n) ==
    [_data |-> n + 1, allocated |-> {n + 1}, lines |-> <<"allocating resource">>]

\* modern::modern(modern&& other): no base is named in the constructor, so
\* classic::classic() initialises the base first; the body then takes the
\* pointer of other over the one just allocated.
modern_move_ctor(n, other) ==
    LET base == classic_ctor(n)
    IN [_data |-> other._data,
        other |-> [other EXCEPT !._data = Null],
        allocated |-> base.allocated,
        lines |-> base.lines \o <<"moving resource">>]

ResourceInit ==
    /\ objects = <<>>
    /\ arrays = {}
    /\ news = 0
    /\ rout = <<>>
    /\ rstatus = "running"

Alive(i) == i \in 1..Len(objects) /\ objects[i].alive

otherVars == <<httpVars, modelVars, prog, tight, frames, heap, tout, exc, status,
               mapVars>>

\* modern m;  (modern() = default runs classic::classic())
DefaultCtor ==
    /\ rstatus = "running"
    /\ LET c == classic_ctor(news)
       IN /\ objects' = Append(objects, [_data |-> c._data, alive |-> TRUE])
          /\ arrays' = arrays \cup c.allocated
          /\ news' = news + Cardinality(c.allocated)
          /\ rout' = rout \o c.lines
    /\ UNCHANGED <<rstatus, otherVars>>

\* modern m{std::move(objects[src])};
MoveCtor(src) ==
    /\ rstatus = "running"
    /\ Alive(src)
    /\ LET c == modern_move_ctor(news, objects[src])
       IN /\ objects' = Append([objects EXCEPT ![src] = c.other],
                               [_data |-> c._data, alive |-> TRUE])
          /\ arrays' = arrays \cup c.allocated
          /\ news' = news + Cardinality(c.allocated)
          /\ rout' = rout \o c.lines
    /\ UNCHANGED <<rstatus, otherVars>>

\* objects[dst] = std::move(objects[src]): modern::operator=(modern&&).
MoveAssign(dst, src) ==
    /\ rstatus = "running"
    /\ Alive(dst)
    /\ Alive(src)
    /\ IF dst # src
       THEN /\ objects' = [objects EXCEPT ![dst]._data = objects[src]._data,
                                          ![src]._data = objects[dst]._data]
            /\ rout' = Append(rout, "moving resource (assignm.)")
       ELSE UNCHANGED <<objects, rout>>
    /\ UNCHANGED <<arrays, news, rstatus, otherVars>>

\* classic::~classic() on objects[i]. delete _data on a pointer obtained from
\* new[] is undefined: the array is released, or the heap breaks and the
\* program ends.
Dtor(i) ==
    /\ rstatus = "running"
    /\ Alive(i)
    /\ IF objects[i]._data # Null
       THEN \/ /\ objects' = [objects EXCEPT ![i] = [_data |-> Null, alive |-> FALSE]]
               /\ arrays' = arrays \ {objects[i]._data}
               /\ rout' = Append(rout, "releasing resource")
               /\ UNCHANGED rstatus
            \/ /\ rstatus' = "crashed"
               /\ UNCHANGED <<objects, arrays, rout>>
       ELSE /\ objects' = [objects EXCEPT ![i].alive = FALSE]
            /\ UNCHANGED <<arrays, rout, rstatus>>
    /\ UNCHANGED <<news, otherVars>>

ResourceNext ==
    \/ Len(objects) < MaxModern /\ Len(rout) < MaxLines /\ DefaultCtor
    \/ \E src \in 1..MaxModern :
          Len(objects) < MaxModern /\ Len(rout) < MaxLines /\ MoveCtor(src)
    \/ \E dst, src \in 1..MaxModern : Len(rout) < MaxLines /\ MoveAssign(dst, src)
    \/ \E i \in 1..MaxModern : Len(rout) < MaxLines /\ Dtor(i)

\* The resource specification: objects of class modern constructed, moved and
\* destroyed in any order.
InitResource == HttpInit /\ ModelIdle /\ TutIdle /\ MapIdle /\ ResourceInit

SpecResource == InitResource /\ [][ResourceNext]_vars

\* The map specification: one call of map on any vector with any function.
InitMap == HttpInit /\ ModelIdle /\ TutIdle /\ MapInit /\ ResourceInit

SpecMap == InitMap /\ [][MapNext]_vars

InitTutorial == HttpInit /\ ModelIdle /\ TutInit /\ MapIdle /\ ResourceInit

SpecTutorial == InitTutorial /\ [][TutorialNext]_vars

\* The model specification: any calls on model<T> over any database content.
InitModel == HttpInit /\ ModelInit /\ TutIdle /\ MapIdle /\ ResourceInit

SpecModel == InitModel /\ [][ModelNext]_vars

\* The routing specification: registrations and dispatches.
RoutingNext ==
    \/ \E m \in EnumValues, p \in Patterns, h \in Handlers :
          onCount < MaxOn /\ On(m, p, h)
    \/ \E p \in Patterns, k \in MethodKeys :
          Len(conns) < MaxConn /\ Dispatch(p, k)

InitRouting == HttpInit /\ ModelIdle /\ TutIdle /\ MapIdle /\ ResourceInit

SpecRouting == InitRouting /\ [][RoutingNext]_vars

\* The response specification: one route, its dispatches and what the handler
\* sends.
ResponseNext ==
    \/ \E m \in Methods, h \in {"h1"} :
          onCount = 0 /\ On(m, "/a", h)
    \/ \E k \in MethodKeys :
          Len(conns) < MaxConn /\ Dispatch("/a", k)
    \/ \E c \in 1..MaxConn : Len(writes) < MaxWrites /\ SendAny(c)

InitResponse == HttpInit /\ ModelIdle /\ TutIdle /\ MapIdle /\ ResourceInit

SpecResponse == InitResponse /\ [][ResponseNext]_vars

\* The port specification: any calls of set_port, run() and run(port).
PortNext ==
    \/ \E n \in Ports : SetPort(n)
    \/ Len(starts) < MaxRuns /\ Run
    \/ \E n \in Ports : Len(starts) < MaxRuns /\ RunPort(n)

InitPort == HttpInit /\ ModelIdle /\ TutIdle /\ MapIdle /\ ResourceInit

SpecPort == InitPort /\ [][PortNext]_vars

(***************************************************************************)
(* Claims about the HTTP wrapper.                                          *)
(***************************************************************************)

\* C1: after server::on(m, p, h) the routing table holds, at
\* resource[p][to_string(m)], an entry for h; and each dispatch of an entry
\* calls its handler exactly once (one more call record), with a request
\* wrapper around the request object and a response wrapper around the
\* response object the underlying server passed.
C1_OnForwardsToHandler ==
    [][ /\ \A m \in Methods, p \in Patterns, h \in Handlers :
              On(m, p, h) => resource'[p][to_string(m)].handler = h
        /\ \A p \in Patterns, k \in MethodKeys :
              Dispatch(p, k) =>
                 /\ Len(conns') = Len(conns) + 1
                 /\ SubSeq(conns', 1, Len(conns)) = conns
                 /\ LET call == conns'[Len(conns')]
                        n == Len(conns) + 1
                    IN /\ call.h = resource[p][k].handler
                       /\ call.h \in Handlers
                       /\ call.req._r = Request(n)
                       /\ call.res._r = Response(n) ]_vars

\* A handler registered by on has been called by two dispatches.
C1_Witness ==
    /\ onCount > 0
    /\ Len(conns) = 2
    /\ \E p \in Patterns, k \in MethodKeys :
          /\ resource[p][k] # NoEntry
          /\ conns[2].h = resource[p][k].handler
          /\ conns[2].res._r = Response(2)
          /\ conns[2].req._r = Request(2)

\* The value a sequence of decimal digits denotes.
RECURSIVE DecimalValue(_)
DecimalValue(ds) ==
    IF ds = <<>> THEN 0
    ELSE 10 * DecimalValue(SubSeq(ds, 1, Len(ds) - 1))
         + (CHOOSE d \in 0..9 : Digit(d) = ds[Len(ds)])

\* No send or send_json call has been made on the response of connection c.
Fresh(c) ==
    /\ conns[c].res._headers = EmptyBag
    /\ \A i \in 1..Len(writes) : writes[i].r # conns[c].res._r

\* C2: send(code, body) with a string body on a freshly constructed response
\* makes exactly one write on the underlying response object, with the same
\* code, the same body and headers holding a Content-Length entry whose value
\* is the decimal length of the body.
C2_SendWritesOnce ==
    [][ \A c \in 1..Len(conns), code \in Codes, body \in StringBodies :
          (Fresh(c) /\ Send(c, "send_string", code, body)) =>
             /\ Len(writes') = Len(writes) + 1
             /\ SubSeq(writes', 1, Len(writes)) = writes
             /\ LET w == writes'[Len(writes')]
                IN /\ w.r = conns[c].res._r
                   /\ w.code = code
                   /\ w.body = body
                   /\ \E e \in BagToSet(w.headers) :
                         /\ e[1] = "Content-Length"
                         /\ e[2] # <<>>
                         /\ \A i \in 1..Len(e[2]) : \E d \in 0..9 : e[2][i] = Digit(d)
                         /\ (Len(e[2]) > 1 => e[2][1] # "0")
                         /\ DecimalValue(e[2]) = Len(body) ]_vars

\* A body of two-digit length has been sent on a fresh response.
C2_Witness ==
    /\ Len(writes) = 1
    /\ writes[1].body \in StringBodies
    /\ Len(writes[1].body) >= 10
    /\ writes[1].headers =
          SetToBag({<<"Content-Length", std_to_string(Len(writes[1].body))>>})

\* The header entries send and send_json add.
ContentLength(body) == <<"Content-Length", std_to_string(Len(body))>>
ContentTypeJson == <<"Content-Type", <<"application/json">>>>

\* The step appends exactly one write, w, made on the response of connection c.
OneWrite(c, w) ==
    /\ writes' = Append(writes, w)
    /\ w.r = conns[c].res._r

LastWrite == writes'[Len(writes')]

\* C12 as stated: after any sequence of send and send_json calls on one
\* response, the headers a send(code, string body) call passes to write hold
\* exactly one Content-Length entry, and its value is the length of the body of
\* that call.
C12_OneContentLength ==
    [][ \A c \in 1..Len(conns), code \in Codes, body \in StringBodies :
          Send(c, "send_string", code, body) =>
             /\ Len(writes') = Len(writes) + 1
             /\ HeaderCount(LastWrite.headers, "Content-Length") = 1
             /\ CopiesIn(ContentLength(body), LastWrite.headers) = 1 ]_vars

\* C13: send_json adds Content-Type: application/json to the headers of the
\* response and delegates to send for the same body type: with a string body
\* the headers written are the earlier ones plus Content-Type and
\* Content-Length, with a stream body the earlier ones plus Content-Type and no
\* further Content-Length; exactly one write is made, with the given code.
C13_SendJson ==
    [][ /\ \A c \in 1..Len(conns), code \in Codes, body \in StringBodies :
              Send(c, "send_json_string", code, body) =>
                 LET hs == conns[c].res._headers (+) SetToBag({ContentTypeJson})
                                                 (+) SetToBag({ContentLength(body)})
                 IN /\ OneWrite(c, [r |-> conns[c].res._r, code |-> code,
                                    body |-> body, headers |-> hs])
                    /\ conns'[c].res._headers = hs
        /\ \A c \in 1..Len(conns), code \in Codes, body \in StreamBodies :
              Send(c, "send_json_stream", code, body) =>
                 LET hs == conns[c].res._headers (+) SetToBag({ContentTypeJson})
                 IN /\ OneWrite(c, [r |-> conns[c].res._r, code |-> code,
                                    body |-> body, headers |-> hs])
                    /\ conns'[c].res._headers = hs
                    /\ HeaderCount(hs, "Content-Length")
                          = HeaderCount(conns[c].res._headers, "Content-Length") ]_vars

\* send_json has written a stream body with Content-Type alone and a string
\* body with Content-Type and Content-Length.
C13_Witness ==
    /\ Len(writes) = 2
    /\ writes[1].body \in StreamBodies
    /\ writes[1].headers = SetToBag({ContentTypeJson})
    /\ writes[2].body \in StringBodies
    /\ writes[2].r # writes[1].r
    /\ writes[2].headers =
          SetToBag({ContentTypeJson, ContentLength(writes[2].body)})

\* C14: send(code, body) with a stream body leaves the headers of the response
\* unchanged and passes to write exactly the headers accumulated by the
\* earlier calls on that response (none on a fresh response).
C14_SendStreamKeepsHeaders ==
    [][ \A c \in 1..Len(conns), code \in Codes, body \in StreamBodies :
          Send(c, "send_stream", code, body) =>
             /\ OneWrite(c, [r |-> conns[c].res._r, code |-> code, body |-> body,
                             headers |-> conns[c].res._headers])
             /\ conns'[c].res._headers = conns[c].res._headers
             /\ Fresh(c) => LastWrite.headers = EmptyBag ]_vars

\* A stream body has been sent on a response that an earlier send had given a
\* Content-Length entry, with that entry and no other.
C14_Witness ==
    /\ Len(writes) = 2
    /\ writes[1].body \in StringBodies
    /\ writes[2].body \in StreamBodies
    /\ writes[2].r = writes[1].r
    /\ writes[2].headers = SetToBag({ContentLength(writes[1].body)})

\* The headers of the write made before write i on the same response object.
PrevHeaders(i) ==
    LET js == {j \in 1..(i - 1) : writes[j].r = writes[i].r}
    IN IF js = {} THEN EmptyBag
       ELSE writes[CHOOSE j \in js : \A k \in js : k <= j].headers

\* What one send or send_json call can add to the headers for a body.
Additions(body) ==
    IF body \in StreamBodies
    THEN {EmptyBag, SetToBag({ContentTypeJson})}
    ELSE {SetToBag({ContentLength(body)}),
          SetToBag({ContentTypeJson}) (+) SetToBag({ContentLength(body)})}

\* C17: every dispatch builds a new response whose headers are empty: the
\* headers of a write are those of the write before it on the same response
\* object (none for the first) plus what the call itself adds, so that headers
\* added while one request is handled never reach the write of another.
C17_HeadersPerDispatch ==
    /\ \A c \in 1..Len(conns) :
          (\A i \in 1..Len(writes) : writes[i].r # conns[c].res._r)
             => conns[c].res._headers = EmptyBag
    /\ \A c, d \in 1..Len(conns) : c # d => conns[c].res._r # conns[d].res._r
    /\ \A i \in 1..Len(writes) :
          \E add \in Additions(writes[i].body) :
             writes[i].headers = PrevHeaders(i) (+) add

\* Two dispatches have each written once: the first with Content-Type and
\* Content-Length, the second, a stream, with no header at all.
C17_Witness ==
    /\ Len(conns) = 2
    /\ Len(writes) = 2
    /\ writes[1].r = Response(1)
    /\ BagCardinality(writes[1].headers) = 2
    /\ writes[2].r = Response(2)
    /\ writes[2].headers = EmptyBag

\* The upper-case name of each value of enum method.
MethodName ==
    (GET :> "GET") @@ (POST :> "POST") @@ (PUT :> "PUT")
       @@ (PATCH :> "PATCH") @@ (DELETE :> "DELETE")

\* C3: to_string maps each of the five methods to its own upper-case name,
\* so on(m, p, h) stores its entry under the name of m, and registering one
\* method leaves the entry of every other method of the same pattern as it was.
C3_MethodNames ==
    [][ \A m \in Methods, p \in Patterns, h \in Handlers :
          On(m, p, h) =>
             /\ to_string(m) = MethodName[m]
             /\ resource'[p][MethodName[m]] = Lambda(h)
             /\ \A m2 \in Methods \ {m} :
                   resource'[p][MethodName[m2]] = resource[p][MethodName[m2]] ]_vars

\* Two different methods are registered for one pattern, under two keys.
C3_Witness ==
    /\ onCount = 2
    /\ \E p \in Patterns :
          Cardinality({k \in MethodKeys : resource[p][k] # NoEntry}) = 2

Registered == {pk \in Patterns \X MethodKeys : resource[pk[1]][pk[2]] # NoEntry}

\* C16: on(m, p, h) puts h in the place of whatever was registered for (p, m)
\* and leaves the entry of every other (pattern, method) pair as it was; a
\* dispatch of (p, m) makes one call, of the handler registered there now.
C16_OnReplacesHandler ==
    [][ /\ \A m \in Methods, p \in Patterns, h \in Handlers :
              On(m, p, h) =>
                 /\ resource'[p][MethodName[m]] = Lambda(h)
                 /\ \A pk \in (Patterns \X MethodKeys) \ {<<p, MethodName[m]>>} :
                       resource'[pk[1]][pk[2]] = resource[pk[1]][pk[2]]
        /\ \A p \in Patterns, k \in MethodKeys :
              Dispatch(p, k) =>
                 /\ Len(conns') = Len(conns) + 1
                 /\ Lambda(conns'[Len(conns')].h) = resource[p][k] ]_vars

\* One (pattern, method) pair was registered twice; the dispatch between the
\* two registrations called the first handler, the dispatch after them the
\* second.
C16_Witness ==
    /\ onCount = 2
    /\ Cardinality(Registered) = 1
    /\ Len(conns) = 2
    /\ conns[1].h = "h1"
    /\ conns[2].h = "h2"
    /\ \A pk \in Registered : resource[pk[1]][pk[2]] = Lambda("h2")

\* C18: the configured port is 9080 from construction until a set_port or
\* run(port) call; run() starts the underlying server with the port as
\* configured and changes nothing else; run(port) has assigned its port when it
\* starts the server; so every start is made with the last port asked for.
C18_StartsOnLastPort ==
    /\ port = DefaultPort
    /\ [][ /\ port' # port => \E n \in Ports : SetPort(n) \/ RunPort(n)
           /\ Run => /\ starts' = Append(starts, port)
                     /\ port' = port
           /\ \A n \in Ports :
                 RunPort(n) => /\ port' = n
                               /\ starts' = Append(starts, n)
           /\ starts' # starts => starts'[Len(starts')] = asked' ]_vars

\* run() started the server on 9080, run(65535) on 65535, and set_port(80)
\* came after.
C18_Witness ==
    /\ starts = <<DefaultPort, 2^ShortBits - 1>>
    /\ port = 80

\* The port configured when the caller passes each of the values 0..65535.
PortRoundTrip == \A n \in AllPorts : set_port(n) = n

\* C19: the configured port is the value the last set_port or run(port) call
\* was given, for every value in 0..65535: the conversions to short and on to
\* the type of config.port change none.
C19_PortPreserved ==
    /\ port = asked
    /\ port \in AllPorts
    /\ \A i \in 1..Len(starts) : starts[i] \in AllPorts
    /\ PortRoundTrip

\* A port that no short holds is configured, and the server was started on
\* another one.
C19_Witness ==
    /\ port = 2^(ShortBits - 1)
    /\ asked = port
    /\ Len(starts) = 1
    /\ starts[1] = 2^ShortBits - 1

(***************************************************************************)
(* Claims about model<T>.                                                  *)
(***************************************************************************)

\* C4: model<T>::get(id) returns a default-constructed T whether or not
\* find_one found a document with that _id, and no field of the found
\* document reaches the returned object.
C4_GetReturnsDefault ==
    [][ \A th \in Threads, t \in Types, id \in ValidIds :
          Get(th, t, id) =>
             /\ ret'.kind = "return"
             /\ ret'.value = T_default(t)
             /\ ret'.value.data # Document(id).data ]_vars

\* get has returned once after printing "nope" and once after printing "ok".
C4_Witness ==
    /\ lastCall.op = "get"
    /\ ret.kind = "return"
    /\ out = <<"nope", "ok">>

\* C5: save() and remove() are no-ops: a call of either leaves the names of
\* every instance and the documents of the database as they were, and makes
\* no call on the database client.
C5_SaveRemoveNoOps ==
    [][ \A i \in 1..MaxCalls :
          (Save(i) \/ Remove(i)) =>
             /\ instances' = instances
             /\ store' = store
             /\ clientLog' = clientLog ]_vars

\* save and then remove were called on an instance whose collection holds a
\* document.
C5_Witness ==
    /\ lastCall = [op |-> "remove", n |-> 3]
    /\ instances # <<>>
    /\ <<instances[1]._db, instances[1]._collection>> \in DOMAIN store
    /\ store[<<instances[1]._db, instances[1]._collection>>] # {}
    /\ clientLog = <<>>

\* C6: model(db, collection) keeps the two names; collection() returns what
\* get_collection() returns, which is client[db][collection] for those two
\* names on the calling thread's client, looked up once, with no other call
\* on the client and no change to the instance or the database.
C6_CollectionPassthrough ==
    [][ /\ \A t \in Types, db \in DbNames, coll \in CollNames :
              ConstructNamed(t, db, coll) =>
                 /\ Len(instances') = Len(instances) + 1
                 /\ instances'[Len(instances')]._db = db
                 /\ instances'[Len(instances')]._collection = coll
        /\ \A i \in 1..Len(instances) : instances'[i] = instances[i]
        /\ \A th \in Threads, i \in 1..Len(instances) :
              Collection(th, i) =>
                 /\ ret'.value = get_collection(th, instances[i])
                 /\ ret'.value = [client |-> Client(th, instances[i].type),
                                  db |-> instances[i]._db,
                                  coll |-> instances[i]._collection]
                 /\ clientLog' = Append(clientLog,
                       <<"[]", Client(th, instances[i].type),
                         instances[i]._db, instances[i]._collection>>)
                 /\ store' = store ]_vars

\* collection() has resolved the collection of an instance built with
\* model("app", "").
C6_Witness ==
    /\ lastCall.op = "collection"
    /\ ret.kind = "return"
    /\ ret.value.db = "app"
    /\ ret.value.coll = ""
    /\ Len(clientLog) = 1

\* C20: a get(id) call that reaches the lookup writes exactly one line: "ok"
\* when the collection of a default-constructed T holds a document whose _id
\* is id, "nope" when it does not; and it changes no document.
C20_GetPrintsOnce ==
    [][ \A th \in Threads, t \in Types, id \in ValidIds :
          Get(th, t, id) =>
             LET key == <<T_default(t)._db, T_default(t)._collection>>
                 present == key \in DOMAIN store /\ id \in store[key]
             IN /\ out' = Append(out, IF present THEN "ok" ELSE "nope")
                /\ store' = store ]_vars

\* Two lookups in one collection that holds one document: the one for another
\* _id printed "nope", the one for the _id of the document printed "ok".
C20_Witness ==
    /\ out = <<"nope", "ok">>
    /\ Len(clientLog) = 4
    /\ clientLog[2][1] = "find_one"
    /\ clientLog[4][1] = "find_one"
    /\ clientLog[2][3] = clientLog[4][3]
    /\ clientLog[2][4] = clientLog[4][4]
    /\ clientLog[2][5] # clientLog[4][5]
    /\ store[<<clientLog[4][3], clientLog[4][4]>>] = {clientLog[4][5]}

\* C21: get(id) with an id that is no object-id string throws while the oid is
\* built: no call is made on a client (no lookup, no find_one), nothing is
\* printed, no T is returned, and no document changes.
C21_InvalidIdThrowsEarly ==
    [][ \A th \in Threads, t \in Types, id \in Ids \ ValidIds :
          Get(th, t, id) =>
             /\ ret' = [kind |-> "throw"]
             /\ clientLog' = clientLog
             /\ clientUsers' = clientUsers
             /\ out' = out
             /\ store' = store ]_vars

\* A get that found its document was followed by a get that threw and added
\* nothing to the output or to the calls made on the client.
C21_Witness ==
    /\ lastCall = [op |-> "get", n |-> 2]
    /\ ret.kind = "throw"
    /\ out = <<"ok">>
    /\ Len(clientLog) = 2

\* The names a default-constructed object of each class holds.
DefaultNames == [plain |-> <<"", "">>, named |-> <<"app", "users">>]

\* C22: get(id) looks in the collection a default-constructed T resolves: the
\* one lookup and the one find_one it makes name the database and collection
\* of T's default constructor, both empty for a class whose default
\* constructor uses model(), whatever names other instances were given.
C22_GetUsesDefaultNames ==
    [][ \A th \in Threads, t \in Types, id \in ValidIds :
          Get(th, t, id) =>
             LET db == DefaultNames[t][1]
                 coll == DefaultNames[t][2]
             IN /\ clientLog' = clientLog \o
                      << <<"[]", <<th, t>>, db, coll>>,
                         <<"find_one", <<th, t>>, db, coll, id>> >>
                /\ t = "plain" => db = "" /\ coll = "" ]_vars

\* An instance of the class that uses model() was built with model("app",
\* "users"), and a get of that class then looked in the collection with the
\* two empty names.
C22_Witness ==
    /\ lastCall = [op |-> "get", n |-> 2]
    /\ Len(instances) = 1
    /\ instances[1] = model_named("plain", "app", "users")
    /\ Len(clientLog) = 2
    /\ clientLog[2][3] = ""
    /\ clientLog[2][4] = ""
    /\ store[<<"app", "users">>] # {}
    /\ store[<<"", "">>] = {}
    /\ out = <<"nope">>

\* C23: no client object is used by two threads: every call get or
\* collection() makes goes to a client that only the calling thread has used.
C23_ClientPerThread ==
    /\ \A c \in DOMAIN clientUsers : Cardinality(clientUsers[c]) <= 1
    /\ \A k \in 1..Len(clientLog) : clientUsers[clientLog[k][2]] # {}

\* Two threads have called get for the same class and a third call was made by
\* one of them: two client objects are in use, each by one thread.
C23_Witness ==
    /\ lastCall.n = 3
    /\ Len(clientLog) >= 5
    /\ \E c, d \in DOMAIN clientUsers :
          /\ c # d
          /\ c[2] = d[2]
          /\ clientUsers[c] = {1}
          /\ clientUsers[d] = {2}

\* The arrays that no living object points to.
Leaked == arrays \ {objects[i]._data : i \in {j \in 1..Len(objects) : objects[j].alive}}

\* C24 as stated: modern(modern&& other) gives the new object the resource the
\* source held and leaves the source with none, without allocating: as many
\* arrays are allocated and not released after the move as before it, and none
\* of them is leaked.
C24_MoveCtorAllocatesNothing ==
    [][ \A src \in 1..MaxModern :
          MoveCtor(src) =>
             /\ objects'[Len(objects')]._data = objects[src]._data
             /\ objects'[src]._data = Null
             /\ news' = news
             /\ Cardinality(arrays') = Cardinality(arrays)
             /\ Leaked' = Leaked ]_vars

(***************************************************************************)
(* Claims about the tutorial programs.                                     *)
(***************************************************************************)
IsPrefix(a, b) == Len(a) <= Len(b) /\ a = SubSeq(b, 1, Len(a))

\* C7: in wear_pants the pants object owned by the managed_ptr is destroyed
\* exactly once, when the managed_ptr goes out of scope and after its last
\* use: the output is "pants created", "pants worn", "pants destroyed", in
\* this order.
C7_WearPantsOrder ==
    prog = "wear_pants" =>
       /\ IsPrefix(tout, <<"pants created", "pants worn", "pants destroyed">>)
       /\ status # "aborted"
       /\ \A o \in 1..Len(heap) : heap[o].deletes + heap[o].rawDeletes <= 1
       /\ status = "done" =>
             /\ tout = <<"pants created", "pants worn", "pants destroyed">>
             /\ Len(heap) = 1
             /\ heap[1].state = "freed"
             /\ heap[1].deletes = 1

\* wear_pants has run to its end.
C7_Witness ==
    /\ prog = "wear_pants"
    /\ status = "done"
    /\ Len(tout) = 3

\* C8: in the managed_ptr version of casually_wear_pants, when wear() throws
\* tight_pants_exception the pants object is still destroyed exactly once,
\* before the catch handler of main runs: the output is "pants created",
\* "pants destroyed", "too tight", in this order.
C8_ManagedThrowOrder ==
    prog = "managed_throw" =>
       /\ IsPrefix(tout, <<"pants created", "pants destroyed", "too tight">>)
       /\ status # "aborted"
       /\ \A o \in 1..Len(heap) : heap[o].deletes + heap[o].rawDeletes <= 1
       /\ status = "done" =>
             /\ tout = <<"pants created", "pants destroyed", "too tight">>
             /\ Len(heap) = 1
             /\ heap[1].state = "freed"
             /\ heap[1].deletes = 1

\* The managed_ptr version has run to its end after the handler of main ran.
C8_Witness ==
    /\ prog = "managed_throw"
    /\ status = "done"
    /\ Len(tout) = 3
    /\ tout[3] = what

\* The run leaves casually_wear_pants before its delete statement.
LeavesEarly == prog = "raw_throw" \/ (prog = "raw_return" /\ tight)

\* C9: in the raw-pointer versions of casually_wear_pants, on every path that
\* leaves the function before its delete statement (the early return, or the
\* exception thrown by wear()) the pants object is never destroyed; with the
\* exception the output is "pants created" then "too tight", with no
\* "pants destroyed".
C9_RawPointerLeak ==
    LeavesEarly =>
       /\ \A o \in 1..Len(heap) :
             heap[o].state = "live" /\ heap[o].deletes + heap[o].rawDeletes = 0
       /\ \A i \in 1..Len(tout) : tout[i] # "pants destroyed"
       /\ prog = "raw_throw" => IsPrefix(tout, <<"pants created", "too tight">>)
       /\ (prog = "raw_throw" /\ status = "done") =>
             tout = <<"pants created", "too tight">> /\ Len(heap) = 1
       /\ (prog = "raw_return" /\ status = "done") =>
             tout = <<"pants created">> /\ Len(heap) = 1

\* The exception version has run to its end with its pants object still live.
C9_Witness ==
    /\ prog = "raw_throw"
    /\ status = "done"
    /\ Len(heap) = 1
    /\ heap[1].state = "live"
    /\ tout = <<"pants created", what>>

\* The live managed_ptr objects that hold a pointer to object o.
LiveOwners(o) ==
    {ki \in (1..Len(frames)) \X (1..MaxPtrs + 1) :
        /\ ki[2] <= Len(frames[ki[1]].autos)
        /\ frames[ki[1]].autos[ki[2]]._ptr = o}

\* C10 as stated: whatever constructors are used, no two live managed_ptr
\* objects own the same pointee and no pointee is deleted twice by
\* managed_ptr destructors.
C10_OnlyReference ==
    \A o \in 1..Len(heap) :
       /\ Cardinality(LiveOwners(o)) <= 1
       /\ heap[o].deletes <= 1

\* C10 amended: a pointee that was given to at most one managed_ptr
\* constructor (the default constructor's own allocation counts as one) is
\* at no time owned by two live managed_ptr objects and is deleted at most
\* once by managed_ptr destructors; if it is also never deleted directly, it
\* is deleted at most once in all.
C10_OnlyReferenceIfGivenOnce ==
    \A o \in 1..Len(heap) :
       heap[o].owners <= 1 =>
          /\ Cardinality(LiveOwners(o)) <= 1
          /\ Cardinality(LiveOwners(o)) <= heap[o].owners
          /\ heap[o].deletes <= 1
          /\ heap[o].rawDeletes = 0 => heap[o].deletes + heap[o].rawDeletes <= 1

\* One managed_ptr has been destroyed and has deleted its pointee; another is
\* live and owns a second pointee.
C10_Witness ==
    /\ prog = "client"
    /\ status = "running"
    /\ Len(heap) = 2
    /\ heap[1].owners = 1 /\ heap[1].deletes = 1 /\ heap[1].state = "freed"
    /\ heap[2].owners = 1 /\ heap[2].state = "live"
    /\ Cardinality(LiveOwners(2)) = 1

\* C11: map(xs, op) is structure-preserving: the vector it returns has the
\* length of xs and holds op(xs[i]) at every index i, in the same order, and
\* xs is left unchanged.
C11_MapStructurePreserving ==
    [][ /\ mxs' = mxs
        /\ mop' = mop
        /\ mpc' = "done" =>
              /\ Len(mret') = Len(mxs)
              /\ \A i \in 1..Len(mxs) : mret'[i] = Apply(mop, mxs[i]) ]_vars

\* map has returned the image of a vector of at least two different elements
\* under a function that changes them.
C11_Witness ==
    /\ mpc = "done"
    /\ Len(mxs) >= 2
    /\ mxs[1] # mxs[2]
    /\ mop = "succ"
    /\ mret = [i \in 1..Len(mxs) |-> mxs[i] + 1]

====
